---- MODULE Spec2Model ----
(***************************************************************************)
(* Node admission gate of the enclave: registration/onchain.rs.           *)
(*                                                                         *)
(* split_combined_cert, verify_attestation_epid, verify_attestation_dcap  *)
(* and ecall_authenticate_new_node are modelled from the source.  The     *)
(* collaborators living in other crates (verify_ra_cert,                   *)
(* verify_quote_sgx, verify_ra_report, encrypt_seed, the OOM handler, the  *)
(* pointer validation macros, check_cert_in_current_block) are inputs:     *)
(* each invocation draws its response from a small set.                    *)
(*                                                                         *)
(* Specifications:                                                         *)
(*   Spec       successive calls of ecall_authenticate_new_node            *)
(*   SpecSplit  split_combined_cert applied to bounded bundles             *)
(*   SpecConc   NThreads calls of the entry point running concurrently     *)
(*   SpecConcFair  SpecConc under fair scheduling of every thread           *)
(***************************************************************************)
EXTENDS Integers, Sequences, FiniteSets, TLC

VARIABLES
    light_client,       \* cfg(feature = "light-client-validation"), fixed per build
    block_time_ns,      \* VERIFIED_BLOCK_MESSAGES.time()
    pc,                 \* position inside ecall_authenticate_new_node
    ncalls,             \* calls started so far
    cert,               \* the bytes behind the `cert` pointer
    cert_len,           \* the cert_len argument
    hdr,                \* the three header words the caller encoded (ghost)
    seed,               \* the output buffer
    seed0,              \* the output buffer as it was when the call started (ghost)
    vec_cert,           \* decoded sections
    vec_quote,
    vec_coll,
    split_trace,        \* what split_combined_cert did: accepted, offsets, reads (ghost)
    target_public_key,
    closure,            \* value of `result`, the catch_unwind closure's outcome
    retval,             \* the NodeAuthResult returned, "None" while running
    log,                \* collaborator invocations of the current call (ghost)
    registered,         \* successful register_oom_handler calls, all calls
    restored,           \* restore_safety_buffer invocations, all calls
    armed,              \* a registered safety margin has not been restored
    th,                 \* concurrent calls: the state of each thread's call
    lock,               \* holder of the VERIFIED_BLOCK_MESSAGES mutex, 0 when free
    holders,            \* threads whose registration of the margin is outstanding
    halted              \* a panic left the entry point and ended the process

vars == <<light_client, block_time_ns, pc, ncalls, cert, cert_len, hdr, seed,
          seed0, vec_cert, vec_quote, vec_coll, split_trace, target_public_key,
          closure, retval, log, registered, restored, armed,
          th, lock, holders, halted>>

\* the state of the concurrent calls
conc == <<th, lock, holders, halted>>

(***************************************************************************)
(* Bounds of the model.                                                    *)
(***************************************************************************)
\* longest section body a bundle carries after its 12-byte header
MaxBody == 4
\* calls of the entry point in one behaviour
MaxCalls == 2
\* threads calling the entry point at the same time
NThreads == 2
\* length of the output buffer (the crate constant is defined outside this
\* file; the model scales it down and derives the encryptor's result
\* lengths from it)
OUTPUT_ENCRYPTED_SEED_SIZE == 4

(***************************************************************************)
(* Program constants.                                                      *)
(***************************************************************************)
PUBLIC_KEY_SIZE == 32

\* mem::size_of::<u32>() as u32 * 3
n0 == 4 * 3

(***************************************************************************)
(* Machine integers.  TLC's integers are 32-bit signed, so a u32 or u64    *)
(* is kept as two limbs: value = hi * 2^16 + lo, 0 <= lo < 2^16.           *)
(***************************************************************************)
Limb == 256 * 256

Wide(n) == [hi |-> n \div Limb, lo |-> n % Limb]

WAdd(a, b) ==
    LET l == a.lo + b.lo
    IN  [hi |-> a.hi + b.hi + (l \div Limb), lo |-> l % Limb]

WLe(a, b) == a.hi < b.hi \/ (a.hi = b.hi /\ a.lo <= b.lo)

WLt(a, b) == a.hi < b.hi \/ (a.hi = b.hi /\ a.lo < b.lo)

\* truncation to 32 bits
U32(a) == [hi |-> a.hi % Limb, lo |-> a.lo]

\* `as usize` / `as isize` of a value known to be small
ToNat(a) == a.hi * Limb + a.lo

Min(a, b) == IF a <= b THEN a ELSE b

(***************************************************************************)
(* Bytes in memory.                                                        *)
(***************************************************************************)
\* the four bytes of a u32 stored little-endian (what the caller writes)
LE32(w) == <<w.lo % 256, w.lo \div 256, w.hi % 256, w.hi \div 256>>

\* a byte of the buffer; a byte past its end is not the buffer's (the read
\* is recorded in split_trace.reads, its value is taken as 0)
ByteAt(buf, off) == IF off < Len(buf) THEN buf[off + 1] ELSE 0

\* u32::from_le(unsafe { *(p_cert.offset(k)) }): the k-th header word.  The
\* load through the *const u32 is an ordinary (possibly unaligned) x86-64
\* load of four bytes; from_le makes the value little-endian on any target.
ReadU32LE(buf, k) ==
    [lo |-> ByteAt(buf, 4 * k) + 256 * ByteAt(buf, 4 * k + 1),
     hi |-> ByteAt(buf, 4 * k + 2) + 256 * ByteAt(buf, 4 * k + 3)]

\* slice::from_raw_parts(cert.offset(off), len).to_vec(): the bytes
\* [off, off+len) of the buffer; the part of the range past the buffer's
\* end is recorded as a read and contributes no byte
SliceToVec(buf, off, len) ==
    IF WLe(WAdd(off, len), Wide(Len(buf)))
    THEN SubSeq(buf, ToNat(off) + 1, ToNat(off) + ToNat(len))
    ELSE IF WLt(off, Wide(Len(buf)))
         THEN SubSeq(buf, ToNat(off) + 1, Len(buf))
         ELSE <<>>

\* the byte range a slice of len bytes at off touches, none when len = 0
SliceReads(off, len) ==
    IF len = Wide(0) THEN {} ELSE {<<off, WAdd(off, len)>>}

(***************************************************************************)
(* split_combined_cert                                                     *)
(***************************************************************************)
\* if cert_len >= n0
HeaderPresentNoGuard(len) == TRUE

HeaderPresent(len) == len >= n0

\* (n0 as u64) + (s0 as u64) + (s1 as u64) + (s2 as u64)
SizeTotalU32(s0, s1, s2) == U32(WAdd(WAdd(WAdd(Wide(n0), s0), s1), s2))

SizeTotal(s0, s1, s2) == WAdd(WAdd(WAdd(Wide(n0), s0), s1), s2)

NoSections ==
    [vec_cert |-> <<>>, vec_quote |-> <<>>, vec_coll |-> <<>>,
     accepted |-> FALSE, off_quote |-> Wide(0), off_coll |-> Wide(0),
     reads |-> {}]

split_combined_cert(buf, len) ==
    IF HeaderPresent(len)
    THEN LET s0 == ReadU32LE(buf, 0)
             s1 == ReadU32LE(buf, 1)
             s2 == ReadU32LE(buf, 2)
             hreads == {<<Wide(0), Wide(4)>>, <<Wide(4), Wide(8)>>,
                        <<Wide(8), Wide(12)>>}
             size_total == SizeTotal(s0, s1, s2)
         IN  IF WLe(size_total, Wide(len))
             THEN LET o0 == Wide(n0)
                      o1 == U32(WAdd(Wide(n0), s0))
                      o2 == U32(WAdd(U32(WAdd(Wide(n0), s0)), s1))
                  IN  [vec_cert  |-> SliceToVec(buf, o0, s0),
                       vec_quote |-> SliceToVec(buf, o1, s1),
                       vec_coll  |-> SliceToVec(buf, o2, s2),
                       accepted  |-> TRUE,
                       off_quote |-> o1,
                       off_coll  |-> o2,
                       reads     |-> hreads \cup SliceReads(o0, s0)
                                     \cup SliceReads(o1, s1)
                                     \cup SliceReads(o2, s2)]
             ELSE [NoSections EXCEPT !.reads = hreads]
    ELSE NoSections

(***************************************************************************)
(* Bundles the caller may hand in.                                         *)
(***************************************************************************)
MaxCertLen == n0 + MaxBody

\* section bytes: byte i of the body is 100 + i, so ranges are told apart
Body == [i \in 1..MaxBody |-> 100 + i]

Take(s, n) == SubSeq(s, 1, Min(n, Len(s)))

\* a buffer of len bytes whose first bytes are the header h0,h1,h2
MkBundle(h, len) == Take(LE32(h[1]) \o LE32(h[2]) \o LE32(h[3]) \o Body, len)

HeaderWords ==
    {Wide(0), Wide(1), Wide(2), Wide(MaxBody),
     [hi |-> 65535, lo |-> 65535],      \* 2^32 - 1
     [hi |-> 65535, lo |-> 65534],      \* 2^32 - 2
     [hi |-> 65535, lo |-> 65524],      \* 2^32 - 12
     [hi |-> 32768, lo |-> 0]}          \* 2^31

Zeros(n) == [i \in 1..n |-> 0]

\* threads of the host
Threads == 1..NThreads

\* a thread that has not called the entry point
IdleThread ==
    [pc |-> "idle", hdr |-> <<Wide(0), Wide(0), Wide(0)>>, cert_len |-> 0,
     seed |-> Zeros(OUTPUT_ENCRYPTED_SEED_SIZE),
     seed0 |-> Zeros(OUTPUT_ENCRYPTED_SEED_SIZE),
     sec |-> NoSections, key |-> Zeros(PUBLIC_KEY_SIZE),
     closure |-> [kind |-> "none", code |-> "", val |-> <<>>],
     retval |-> "None",
     nlock |-> 0,            \* acquisitions of the mutex (ghost)
     clean |-> TRUE,         \* every collaborator so far reported success (ghost)
     vkey |-> <<>>,          \* the key the validator established (ghost)
     payload |-> <<>>,       \* genesis and current results, concatenated (ghost)
     restores |-> 0,         \* invocations of restore_safety_buffer (ghost)
     released |-> {}]        \* registrations its restore released (ghost)

\* no concurrent call is running
ConcIdle ==
    /\ th = [t \in Threads |-> IdleThread]
    /\ lock = 0
    /\ holders = {}
    /\ halted = FALSE

\* per-call state before anything ran
Fresh ==
    /\ vec_cert = <<>>
    /\ vec_quote = <<>>
    /\ vec_coll = <<>>
    /\ split_trace = NoSections
    /\ target_public_key = Zeros(PUBLIC_KEY_SIZE)
    /\ closure = [kind |-> "none", code |-> "", val |-> <<>>]
    /\ retval = "None"
    /\ log = <<>>

(***************************************************************************)
(* SpecSplit: split_combined_cert on every bounded bundle.                 *)
(***************************************************************************)
InitSplit ==
    /\ light_client = FALSE
    /\ block_time_ns = 0
    /\ pc = "split_in"
    /\ ncalls = 0
    /\ hdr \in HeaderWords \X HeaderWords \X HeaderWords
    /\ cert_len \in 0..MaxCertLen
    /\ cert = MkBundle(hdr, cert_len)
    /\ seed = Zeros(OUTPUT_ENCRYPTED_SEED_SIZE)
    /\ seed0 = seed
    /\ Fresh
    /\ registered = 0
    /\ restored = 0
    /\ armed = FALSE
    /\ ConcIdle

SplitOnly ==
    /\ pc = "split_in"
    /\ LET r == split_combined_cert(cert, cert_len)
       IN  /\ vec_cert' = r.vec_cert
           /\ vec_quote' = r.vec_quote
           /\ vec_coll' = r.vec_coll
           /\ split_trace' = r
    /\ pc' = "split_out"
    /\ UNCHANGED conc
    /\ UNCHANGED <<light_client, block_time_ns, ncalls, cert, cert_len, hdr,
                   seed, seed0, target_public_key, closure, retval, log,
                   registered, restored, armed>>

NextSplit == SplitOnly

SpecSplit == InitSplit /\ [][NextSplit]_vars

(***************************************************************************)
(* Collaborator responses.                                                 *)
(***************************************************************************)
NodeAuthResult ==
    {"Success", "InvalidInput", "InvalidCert", "MalformedPublicKey",
     "SignatureInvalid", "SeedEncryptionFailed",
     "MemorySafetyAllocationError", "Panic", "MrSignerMismatch",
     "MrEnclaveMismatch"}

\* a key of n bytes, byte i is (base + i) % 256
KeyBytes(n, base) == [i \in 1..n |-> (base + i) % 256]

\* verify_ra_cert(cert_slice, None, true) -> Result<Vec<u8>, NodeAuthResult>:
\* Ok with a key of any length, or Err with any NodeAuthResult the type admits
CertResponses ==
    {[ok |-> TRUE, key |-> k, err |-> "Success"] :
        k \in {KeyBytes(PUBLIC_KEY_SIZE, 16), KeyBytes(PUBLIC_KEY_SIZE, 64),
               KeyBytes(PUBLIC_KEY_SIZE - 1, 16),
               KeyBytes(PUBLIC_KEY_SIZE + 1, 16), <<>>}}
    \cup
    {[ok |-> FALSE, key |-> <<>>, err |-> e] :
        e \in {"InvalidCert", "MrSignerMismatch", "Success"}}

\* sgx_report_body_t: the measurements and the 64-byte report data
ReportBodies ==
    {[mr_signer |-> 1, mr_enclave |-> 1,
      report_data |-> [i \in 1..64 |-> 200 - i]],
     [mr_signer |-> 2, mr_enclave |-> 1,
      report_data |-> [i \in 1..64 |-> i]]}

\* verify_quote_sgx(vec_quote, vec_coll, tm_s)
\*   -> Result<(sgx_report_body_t, sgx_ql_qv_result_t), sgx_status_t>
QuoteResponses ==
    {[ok |-> TRUE, body |-> b, qv |-> q] :
        b \in ReportBodies,
        q \in {"SGX_QL_QV_RESULT_OK", "SGX_QL_QV_RESULT_OUT_OF_DATE"}}
    \cup
    {[ok |-> FALSE, body |-> CHOOSE b \in ReportBodies : b.mr_signer = 1,
      qv |-> "SGX_ERROR_UNEXPECTED"]}

\* verify_ra_report(mr_signer, mr_enclave, Some(MRSIGNER)) -> NodeAuthResult
PolicyResponses == {"Success", "MrSignerMismatch", "MrEnclaveMismatch"}

\* encrypt_seed(key, seed_type, false) -> SgxResult<Vec<u8>>; it may also
\* panic.  The payload depends on the key and the seed type; its length
\* is the collaborator's choice.
Payload(key, base, n) == [i \in 1..n |-> (base + key[1] + i) % 256]

GenesisLens == {1, 2}

CurrentLens == {OUTPUT_ENCRYPTED_SEED_SIZE - 2, OUTPUT_ENCRYPTED_SEED_SIZE - 1}

\* what tells a genesis payload from a current one
SeedTag(seed_type) == IF seed_type = "Genesis" THEN 7 ELSE 77

EncryptResponses(key, seed_type) ==
    {[kind |-> "ok", val |-> Payload(key, SeedTag(seed_type), n)] :
        n \in IF seed_type = "Genesis" THEN GenesisLens ELSE CurrentLens}
    \cup {[kind |-> "err", val |-> <<>>], [kind |-> "panic", val |-> <<>>]}

\* the output buffer as the caller hands it in
SeedInits ==
    {Zeros(OUTPUT_ENCRYPTED_SEED_SIZE),
     [i \in 1..OUTPUT_ENCRYPTED_SEED_SIZE |-> 255]}

\* bundles of the entry point: header words and buffer length
MainBundles ==
    {[h |-> <<Wide(2), Wide(0), Wide(0)>>, len |-> n0 + 2],   \* certificate only
     [h |-> <<Wide(0), Wide(1), Wide(1)>>, len |-> n0 + 2],   \* quote and collateral
     [h |-> <<Wide(1), Wide(1), Wide(1)>>, len |-> n0 + 3],   \* all three
     [h |-> <<Wide(1), Wide(1), Wide(0)>>, len |-> n0 + 2],   \* certificate, quote
     [h |-> <<Wide(1), Wide(0), Wide(1)>>, len |-> n0 + 2],   \* certificate, collateral
     [h |-> <<Wide(0), Wide(1), Wide(0)>>, len |-> n0 + 1],   \* quote alone
     [h |-> <<Wide(0), Wide(0), Wide(0)>>, len |-> n0],       \* header, no section
     [h |-> <<Wide(1), Wide(0), Wide(0)>>, len |-> n0 + MaxBody], \* trailing bytes
     [h |-> <<[hi |-> 65535, lo |-> 65535], Wide(1), Wide(0)>>,
      len |-> n0 + MaxBody],                                  \* lengths wrap in 32 bits
     [h |-> <<Wide(1), Wide(1), Wide(1)>>, len |-> n0 + 2],   \* lengths overflow the buffer
     [h |-> <<Wide(1), Wide(0), Wide(0)>>, len |-> 5],        \* shorter than the header
     [h |-> <<Wide(0), Wide(0), Wide(0)>>, len |-> 0]}        \* empty buffer

(***************************************************************************)
(* The log of collaborator invocations of the current call.                *)
(***************************************************************************)
Ev(op, kind, arg, ok, code, val, num) ==
    [op |-> op, kind |-> kind, arg |-> arg, ok |-> ok, code |-> code,
     val |-> val, num |-> num]

EvOk(op, ok) == Ev(op, "", <<>>, ok, "", <<>>, 0)

(***************************************************************************)
(* get_current_block_time_s                                                *)
(***************************************************************************)
get_current_block_time_s ==
    IF light_client THEN block_time_ns \div 1000000000 ELSE 0

(***************************************************************************)
(* verify_attestation_epid: r is verify_ra_cert's response.  Returns the   *)
(* NodeAuthResult and the out-parameter pub_key.                           *)
(***************************************************************************)
verify_attestation_epid_AnyErrIsInvalidCert(r, pub_key) ==
    IF ~r.ok
    THEN [res |-> "InvalidCert", pub_key |-> pub_key]
    ELSE IF Len(r.key) # PUBLIC_KEY_SIZE
         THEN [res |-> "MalformedPublicKey", pub_key |-> pub_key]
         ELSE [res |-> "Success", pub_key |-> r.key]

verify_attestation_epid(r, pub_key) ==
    IF ~r.ok
    THEN [res |-> r.err, pub_key |-> pub_key]
    ELSE IF Len(r.key) # PUBLIC_KEY_SIZE
         THEN [res |-> "MalformedPublicKey", pub_key |-> pub_key]
         ELSE [res |-> "Success", pub_key |-> r.key]

(***************************************************************************)
(* verify_attestation_dcap: q is verify_quote_sgx's response, p is         *)
(* verify_ra_report's response (consulted only when q is Ok).              *)
(***************************************************************************)
verify_attestation_dcap_StaleIsFatal(q, p, pub_key) ==
    IF ~q.ok \/ q.qv # "SGX_QL_QV_RESULT_OK"
    THEN [res |-> "InvalidCert", pub_key |-> pub_key, policy |-> FALSE]
    ELSE IF "Success" # p
         THEN [res |-> p, pub_key |-> pub_key, policy |-> TRUE]
         ELSE [res |-> "Success",
               pub_key |-> SubSeq(q.body.report_data, 1, 32),
               policy |-> TRUE]

verify_attestation_dcap_PolicyIgnored(q, p, pub_key) ==
    IF ~q.ok
    THEN [res |-> "InvalidCert", pub_key |-> pub_key, policy |-> FALSE]
    ELSE [res |-> "Success",
          pub_key |-> SubSeq(q.body.report_data, 1, 32),
          policy |-> TRUE]

verify_attestation_dcap(q, p, pub_key) ==
    IF ~q.ok
    THEN [res |-> "InvalidCert", pub_key |-> pub_key, policy |-> FALSE]
    ELSE IF "Success" # p
         THEN [res |-> p, pub_key |-> pub_key, policy |-> TRUE]
         ELSE [res |-> "Success",
               pub_key |-> SubSeq(q.body.report_data, 1, 32),
               policy |-> TRUE]

(***************************************************************************)
(* Pointer validation (enclave_utils::validate_mut_ptr! and                *)
(* validate_const_ptr!): the region must lie where the enclave may access  *)
(* it (in_range, the caller's doing) and must not be empty.                *)
(***************************************************************************)
validate_ptr(in_range, len) == in_range /\ len # 0

\* line 172: let mut target_public_key: [u8; 32] = [0u8; 32]
target_public_key_stale == target_public_key

target_public_key_init == [i \in 1..32 |-> 0]

(***************************************************************************)
(* Decisions of ecall_authenticate_new_node.                               *)
(***************************************************************************)
\* lines 176-195: which verifier the decoded sections select
RouteCertFirst(c, q, l) ==
    IF c # <<>> THEN "epid"
    ELSE IF q = <<>> \/ l = <<>> THEN "none" ELSE "dcap"

RouteNoEvidenceToEpid(c, q, l) ==
    IF q = <<>> \/ l = <<>> THEN "epid" ELSE "dcap"

RouteOf(c, q, l) ==
    IF q = <<>> \/ l = <<>>
    THEN IF c = <<>> THEN "none" ELSE "epid"
    ELSE "dcap"

\* lines 159, 162, 163, 169, 216: what the call returns when a step other
\* than routing, verification and encryption fails
GateFailureBlockAsInvalidCert(gate) ==
    CASE gate = "register" -> "MemorySafetyAllocationError"
      [] gate = "validate_seed" -> "InvalidInput"
      [] gate = "validate_cert" -> "InvalidInput"
      [] gate = "check_block" -> "InvalidCert"
      [] gate = "restore" -> "MemorySafetyAllocationError"

GateFailureRestoreAsPanic(gate) ==
    CASE gate = "register" -> "MemorySafetyAllocationError"
      [] gate = "validate_seed" -> "InvalidInput"
      [] gate = "validate_cert" -> "InvalidInput"
      [] gate = "check_block" -> "SignatureInvalid"
      [] gate = "restore" -> "Panic"

GateFailure(gate) ==
    CASE gate = "register" -> "MemorySafetyAllocationError"
      [] gate = "validate_seed" -> "InvalidInput"
      [] gate = "validate_cert" -> "InvalidInput"
      [] gate = "check_block" -> "SignatureInvalid"
      [] gate = "restore" -> "MemorySafetyAllocationError"

\* if NodeAuthResult::Success != res { return res; }
VerifierFailedNever(res) == FALSE

VerifierFailed(res) == "Success" # res

\* seed.copy_from_slice(&res) asserts equal lengths before it copies
CopyFits(res, s) == Len(res) = Len(s)

\* lines 219-238: the output buffer when the call ends
SeedAfterClearOnFailure(c, s) ==
    IF c.kind = "ok" /\ CopyFits(c.val, s) THEN c.val ELSE Zeros(Len(s))

SeedAfter(c, s) ==
    IF c.kind = "ok" /\ CopyFits(c.val, s) THEN c.val ELSE s

\* lines 219-238: the value returned after a successful restore; "abort"
\* when copy_from_slice panics outside the catch_unwind boundary
OutcomeOfPanicEscapes(c, s) ==
    IF c.kind = "ok"
    THEN IF CopyFits(c.val, s) THEN "Success" ELSE "abort"
    ELSE IF c.kind = "err" THEN c.code ELSE "abort"

OutcomeOf(c, s) ==
    IF c.kind = "ok"
    THEN IF CopyFits(c.val, s) THEN "Success" ELSE "abort"
    ELSE IF c.kind = "err" THEN c.code ELSE "Panic"

(***************************************************************************)
(* Spec: ecall_authenticate_new_node, one action per step of its body.    *)
(***************************************************************************)
build == <<light_client, block_time_ns>>
inputs == <<cert, cert_len, hdr, seed0>>
sections == <<vec_cert, vec_quote, vec_coll, split_trace>>
margin == <<registered, restored, armed>>

Init ==
    /\ light_client \in BOOLEAN
    /\ block_time_ns \in IF light_client THEN {1999999999, 2000000000} ELSE {0}
    /\ pc = "idle"
    /\ ncalls = 0
    /\ hdr = <<Wide(0), Wide(0), Wide(0)>>
    /\ cert_len = 0
    /\ cert = <<>>
    /\ seed = Zeros(OUTPUT_ENCRYPTED_SEED_SIZE)
    /\ seed0 = seed
    /\ Fresh
    /\ registered = 0
    /\ restored = 0
    /\ armed = FALSE
    /\ ConcIdle

\* return `code`
Return(code) ==
    /\ retval' = code
    /\ pc' = "done"

\* the host calls the entry point with a bundle and an output buffer
Call ==
    /\ pc \in {"idle", "done"}
    /\ ncalls < MaxCalls
    /\ \E b \in MainBundles, s \in SeedInits :
          /\ hdr' = b.h
          /\ cert_len' = b.len
          /\ cert' = MkBundle(b.h, b.len)
          /\ seed' = s
          /\ seed0' = s
    /\ ncalls' = ncalls + 1
    /\ vec_cert' = <<>>
    /\ vec_quote' = <<>>
    /\ vec_coll' = <<>>
    /\ split_trace' = NoSections
    /\ target_public_key' = target_public_key_init
    /\ closure' = [kind |-> "none", code |-> "", val |-> <<>>]
    /\ retval' = "None"
    /\ log' = <<>>
    /\ pc' = "register"
    /\ UNCHANGED <<conc, build, margin>>

\* lines 157-160
RegisterOomHandler ==
    /\ pc = "register"
    /\ \E ok \in BOOLEAN :
          /\ log' = Append(log, EvOk("register_oom_handler", ok))
          /\ IF ok
             THEN /\ registered' = registered + 1
                  /\ armed' = TRUE
                  /\ pc' = "validate_seed"
                  /\ UNCHANGED retval
             ELSE /\ Return(GateFailure("register"))
                  /\ UNCHANGED <<registered, armed>>
    /\ UNCHANGED <<conc, build, ncalls, inputs, seed, sections, target_public_key,
                   closure, restored>>

\* line 162
ValidateSeedPtr ==
    /\ pc = "validate_seed"
    /\ \E in_range \in BOOLEAN :
          LET ok == validate_ptr(in_range, Len(seed))
          IN  /\ log' = Append(log, EvOk("validate_mut_ptr", ok))
              /\ IF ok
                 THEN pc' = "validate_cert" /\ UNCHANGED retval
                 ELSE Return(GateFailure("validate_seed"))
    /\ UNCHANGED <<conc, build, ncalls, inputs, seed, sections, target_public_key,
                   closure, margin>>

\* lines 163-165; without the light-client feature line 168 is compiled out
ValidateCertPtr ==
    /\ pc = "validate_cert"
    /\ \E in_range \in BOOLEAN :
          LET ok == validate_ptr(in_range, cert_len)
          IN  /\ log' = Append(log, EvOk("validate_const_ptr", ok))
              /\ IF ok
                 THEN /\ pc' = IF light_client THEN "check_block" ELSE "split"
                      /\ UNCHANGED retval
                 ELSE Return(GateFailure("validate_cert"))
    /\ UNCHANGED <<conc, build, ncalls, inputs, seed, sections, target_public_key,
                   closure, margin>>

\* lines 167-170
CheckCertInCurrentBlock ==
    /\ pc = "check_block"
    /\ \E found \in BOOLEAN :
          /\ log' = Append(log, EvOk("check_cert_in_current_block", found))
          /\ IF found
             THEN pc' = "split" /\ UNCHANGED retval
             ELSE Return(GateFailure("check_block"))
    /\ UNCHANGED <<conc, build, ncalls, inputs, seed, sections, target_public_key,
                   closure, margin>>

\* lines 172-174
SplitCombinedCert ==
    /\ pc = "split"
    /\ LET r == split_combined_cert(cert, cert_len)
       IN  /\ vec_cert' = r.vec_cert
           /\ vec_quote' = r.vec_quote
           /\ vec_coll' = r.vec_coll
           /\ split_trace' = r
    /\ target_public_key' = target_public_key_init
    /\ log' = Append(log, EvOk("split_combined_cert", TRUE))
    /\ pc' = "route"
    /\ UNCHANGED <<conc, build, ncalls, inputs, seed, closure, retval, margin>>

\* lines 176-180, 182, 189
Route ==
    /\ pc = "route"
    /\ LET to == RouteOf(vec_cert, vec_quote, vec_coll)
       IN  IF to = "none"
           THEN Return("InvalidCert")
           ELSE pc' = to /\ UNCHANGED retval
    /\ UNCHANGED <<conc, build, ncalls, inputs, seed, sections, target_public_key,
                   closure, log, margin>>

\* lines 184-187 with verify_attestation_epid, lines 77-97
VerifyAttestationEpid ==
    /\ pc = "epid"
    /\ \E r \in CertResponses :
          LET out == verify_attestation_epid(r, target_public_key)
          IN  /\ target_public_key' = out.pub_key
              /\ log' = log \o
                   <<Ev("verify_ra_cert", "", vec_cert, r.ok, r.err, r.key, 0),
                     Ev("verify_attestation_epid", "", vec_cert, TRUE,
                        out.res, out.pub_key, 0)>>
              /\ IF VerifierFailed(out.res)
                 THEN Return(out.res)
                 ELSE pc' = "encrypt_genesis" /\ UNCHANGED retval
    /\ UNCHANGED <<conc, build, ncalls, inputs, seed, sections, closure, margin>>

\* lines 191-194 with verify_attestation_dcap, lines 99-134
VerifyAttestationDcap ==
    /\ pc = "dcap"
    /\ \E q \in QuoteResponses, p \in PolicyResponses :
          LET out == verify_attestation_dcap(q, p, target_public_key)
              tm_s == get_current_block_time_s
          IN  /\ (~out.policy) => p = "Success"   \* p unused: one response stands for all
              /\ target_public_key' = out.pub_key
              /\ log' = log \o
                   <<Ev("verify_quote_sgx", q.qv, vec_quote \o vec_coll, q.ok,
                        "", q.body.report_data, tm_s)>> \o
                   (IF out.policy
                    THEN <<Ev("verify_ra_report", "MRSIGNER",
                              <<q.body.mr_signer, q.body.mr_enclave>>, TRUE,
                              p, <<>>, 0)>>
                    ELSE <<>>) \o
                   <<Ev("verify_attestation_dcap", "", vec_quote \o vec_coll,
                        TRUE, out.res, out.pub_key, 0)>>
              /\ IF VerifierFailed(out.res)
                 THEN Return(out.res)
                 ELSE pc' = "encrypt_genesis" /\ UNCHANGED retval
    /\ UNCHANGED <<conc, build, ncalls, inputs, seed, sections, closure, margin>>

\* lines 197-204: the closure's first encrypt_seed
EncryptGenesis ==
    /\ pc = "encrypt_genesis"
    /\ \E e \in EncryptResponses(target_public_key, "Genesis") :
          /\ log' = Append(log, Ev("encrypt_seed", "Genesis", target_public_key,
                                   e.kind = "ok", e.kind, e.val, 0))
          /\ IF e.kind = "ok"
             THEN /\ closure' = [kind |-> "running", code |-> "", val |-> e.val]
                  /\ pc' = "encrypt_current"
             ELSE /\ closure' = IF e.kind = "err"
                                THEN [kind |-> "err", code |-> "SeedEncryptionFailed",
                                      val |-> <<>>]
                                ELSE [kind |-> "panic", code |-> "", val |-> <<>>]
                  /\ pc' = "restore"
    /\ UNCHANGED <<conc, build, ncalls, inputs, seed, sections, target_public_key,
                   retval, margin>>

\* lines 206-212: the second encrypt_seed, res.extend, Ok(res)
EncryptCurrent ==
    /\ pc = "encrypt_current"
    /\ \E e \in EncryptResponses(target_public_key, "Current") :
          /\ log' = Append(log, Ev("encrypt_seed", "Current", target_public_key,
                                   e.kind = "ok", e.kind, e.val, 0))
          /\ closure' =
               IF e.kind = "ok"
               THEN [kind |-> "ok", code |-> "", val |-> closure.val \o e.val]
               ELSE IF e.kind = "err"
                    THEN [kind |-> "err", code |-> "SeedEncryptionFailed",
                          val |-> <<>>]
                    ELSE [kind |-> "panic", code |-> "", val |-> <<>>]
    /\ pc' = "restore"
    /\ UNCHANGED <<conc, build, ncalls, inputs, seed, sections, target_public_key,
                   retval, margin>>

\* lines 214-217
RestoreSafetyBuffer ==
    /\ pc = "restore"
    /\ \E ok \in BOOLEAN :
          /\ log' = Append(log, EvOk("restore_safety_buffer", ok))
          /\ restored' = restored + 1
          /\ IF ok
             THEN /\ armed' = FALSE
                  /\ pc' = "finish"
                  /\ UNCHANGED retval
             ELSE /\ Return(GateFailure("restore"))
                  /\ UNCHANGED armed
    /\ UNCHANGED <<conc, build, ncalls, inputs, seed, sections, target_public_key,
                   closure, registered>>

\* lines 219-238
Finish ==
    /\ pc = "finish"
    /\ seed' = SeedAfter(closure, seed)
    /\ LET out == OutcomeOf(closure, seed)
       IN  IF out = "abort"
           THEN pc' = "aborted" /\ UNCHANGED retval
           ELSE Return(out)
    /\ log' = IF closure.kind = "panic"
              THEN Append(log, EvOk("get_then_clear_oom_happened", TRUE))
              ELSE log
    /\ UNCHANGED <<conc, build, ncalls, inputs, sections, target_public_key,
                   closure, margin>>

Next ==
    \/ Call
    \/ RegisterOomHandler
    \/ ValidateSeedPtr
    \/ ValidateCertPtr
    \/ CheckCertInCurrentBlock
    \/ SplitCombinedCert
    \/ Route
    \/ VerifyAttestationEpid
    \/ VerifyAttestationDcap
    \/ EncryptGenesis
    \/ EncryptCurrent
    \/ RestoreSafetyBuffer
    \/ Finish

Spec == Init /\ [][Next]_vars

(***************************************************************************)
(* SpecConc: every thread of the host calls the entry point once, the      *)
(* calls run concurrently.  A thread's steps are those of Spec on its own  *)
(* locals; the mutex of VERIFIED_BLOCK_MESSAGES and the safety margin are  *)
(* shared by the process.                                                  *)
(***************************************************************************)
\* the state of the sequential calls, untouched here
seq == <<pc, ncalls, cert, cert_len, hdr, seed, seed0, vec_cert, vec_quote,
         vec_coll, split_trace, target_public_key, closure, retval, log,
         registered, restored, armed>>

\* the safety margin is one reservation of the process.
\* register_oom_handler() hands out no handle and restore_safety_buffer()
\* takes none: a registration arms the margin for its caller too, a
\* restore releases the margin, whoever armed it.
margin_register(h, t) == h \cup {t}

margin_restore(h, t) == {}

\* bundles of the concurrent calls
ConcBundles ==
    {[h |-> <<Wide(2), Wide(0), Wide(0)>>, len |-> n0 + 2],   \* certificate only
     [h |-> <<Wide(0), Wide(1), Wide(1)>>, len |-> n0 + 2],   \* quote and collateral
     [h |-> <<Wide(0), Wide(0), Wide(0)>>, len |-> n0]}       \* no section

\* split_combined_cert on each of them, computed once
ConcSplit ==
    [b \in ConcBundles |-> split_combined_cert(MkBundle(b.h, b.len), b.len)]

\* each thread's evidence carries its own channel public key
ConcCertResponses(t) ==
    {[ok |-> TRUE, key |-> KeyBytes(PUBLIC_KEY_SIZE, 16 * t), err |-> "Success"],
     [ok |-> FALSE, key |-> <<>>, err |-> "InvalidCert"]}

ConcBody(t) ==
    [mr_signer |-> 1, mr_enclave |-> 1,
     report_data |-> [i \in 1..64 |-> (40 * t + i) % 256]]

ConcQuoteResponses(t) ==
    {[ok |-> TRUE, body |-> ConcBody(t), qv |-> "SGX_QL_QV_RESULT_OUT_OF_DATE"],
     [ok |-> FALSE, body |-> ConcBody(t), qv |-> "SGX_ERROR_UNEXPECTED"]}

\* thread t's call becomes r
SetThread(t, r) == th' = [th EXCEPT ![t] = r]

\* thread t's call returns code
Returned(r, code) == [r EXCEPT !.retval = code, !.pc = "done", !.clean = FALSE]

\* lines 151-156
TCall(t) ==
    /\ ~halted
    /\ th[t].pc = "idle"
    /\ \E b \in ConcBundles :
          SetThread(t, [th[t] EXCEPT
              !.pc = "register", !.hdr = b.h, !.cert_len = b.len,
              !.seed = [i \in 1..OUTPUT_ENCRYPTED_SEED_SIZE |-> 200 + t],
              !.seed0 = [i \in 1..OUTPUT_ENCRYPTED_SEED_SIZE |-> 200 + t]])
    /\ UNCHANGED <<build, seq, lock, holders, halted>>

\* lines 157-160
TRegisterOomHandler(t) ==
    /\ ~halted
    /\ th[t].pc = "register"
    /\ \E ok \in BOOLEAN :
          IF ok
          THEN /\ holders' = margin_register(holders, t)
               /\ SetThread(t, [th[t] EXCEPT !.pc = "validate"])
          ELSE /\ SetThread(t, Returned(th[t], GateFailure("register")))
               /\ UNCHANGED holders
    /\ UNCHANGED <<build, seq, lock, halted>>

\* lines 162-170: the two validations and, in a light-client build, the
\* block check; none touches shared state
TValidate(t) ==
    /\ ~halted
    /\ th[t].pc = "validate"
    /\ \E seed_in_range, cert_in_range, found \in BOOLEAN :
          LET r == th[t]
          IN  /\ (~light_client) => found
              /\ (~(validate_ptr(seed_in_range, Len(r.seed))
                    /\ validate_ptr(cert_in_range, r.cert_len))) => found
              /\ (~validate_ptr(seed_in_range, Len(r.seed))) => cert_in_range
              /\ SetThread(t,
                    IF ~validate_ptr(seed_in_range, Len(r.seed))
                    THEN Returned(r, GateFailure("validate_seed"))
                    ELSE IF ~validate_ptr(cert_in_range, r.cert_len)
                    THEN Returned(r, GateFailure("validate_cert"))
                    ELSE IF ~found
                    THEN Returned(r, GateFailure("check_block"))
                    ELSE [r EXCEPT !.pc = "split"])
    /\ UNCHANGED <<build, seq, lock, holders, halted>>

\* lines 172-189
TSplitAndRoute(t) ==
    /\ ~halted
    /\ th[t].pc = "split"
    /\ LET r == th[t]
           d == ConcSplit[[h |-> r.hdr, len |-> r.cert_len]]
           to == RouteOf(d.vec_cert, d.vec_quote, d.vec_coll)
           r1 == [r EXCEPT !.sec = d, !.key = target_public_key_init]
       IN  SetThread(t, IF to = "none"
                        THEN Returned(r1, "InvalidCert")
                        ELSE [r1 EXCEPT !.pc = to])
    /\ UNCHANGED <<build, seq, lock, holders, halted>>

\* lines 184-187
TVerifyAttestationEpid(t) ==
    /\ ~halted
    /\ th[t].pc = "epid"
    /\ \E c \in ConcCertResponses(t) :
          LET out == verify_attestation_epid(c, th[t].key)
              r1 == [th[t] EXCEPT !.key = out.pub_key,
                                  !.vkey = IF c.ok THEN c.key ELSE <<>>]
          IN  SetThread(t, IF VerifierFailed(out.res)
                           THEN Returned(r1, out.res)
                           ELSE [r1 EXCEPT !.pc = "encrypt_genesis"])
    /\ UNCHANGED <<build, seq, lock, holders, halted>>

\* line 104 with line 37: VERIFIED_BLOCK_MESSAGES.lock() waits for the
\* mutex; a build without the light-client feature takes no lock (line 43)
TLockBlockMessages(t) ==
    /\ ~halted
    /\ th[t].pc = "dcap"
    /\ IF light_client
       THEN /\ lock = 0
            /\ lock' = t
            /\ SetThread(t, [th[t] EXCEPT !.pc = "dcap_time",
                                          !.nlock = th[t].nlock + 1])
       ELSE /\ SetThread(t, [th[t] EXCEPT !.pc = "dcap_verify"])
            /\ UNCHANGED lock
    /\ UNCHANGED <<build, seq, holders, halted>>

\* lines 38-40: the time is read and the guard dropped on return
TReadBlockTime(t) ==
    /\ ~halted
    /\ th[t].pc = "dcap_time"
    /\ lock = t
    /\ lock' = 0
    /\ SetThread(t, [th[t] EXCEPT !.pc = "dcap_verify"])
    /\ UNCHANGED <<build, seq, holders, halted>>

\* lines 108-134 and 191-194
TVerifyAttestationDcap(t) ==
    /\ ~halted
    /\ th[t].pc = "dcap_verify"
    /\ \E q \in ConcQuoteResponses(t), p \in {"Success", "MrSignerMismatch"} :
          LET out == verify_attestation_dcap(q, p, th[t].key)
              r1 == [th[t] EXCEPT !.key = out.pub_key,
                                  !.vkey = IF q.ok
                                           THEN SubSeq(q.body.report_data, 1, 32)
                                           ELSE <<>>]
          IN  /\ (~out.policy) => p = "Success"
              /\ SetThread(t, IF VerifierFailed(out.res)
                              THEN Returned(r1, out.res)
                              ELSE [r1 EXCEPT !.pc = "encrypt_genesis"])
    /\ UNCHANGED <<build, seq, lock, holders, halted>>

\* the closure after an encrypt_seed that did not return Ok
FailedClosure(e) ==
    IF e.kind = "err"
    THEN [kind |-> "err", code |-> "SeedEncryptionFailed", val |-> <<>>]
    ELSE [kind |-> "panic", code |-> "", val |-> <<>>]

\* lines 197-204
TEncryptGenesis(t) ==
    /\ ~halted
    /\ th[t].pc = "encrypt_genesis"
    /\ \E e \in EncryptResponses(th[t].key, "Genesis") :
          SetThread(t,
              IF e.kind = "ok"
              THEN [th[t] EXCEPT !.pc = "encrypt_current",
                       !.closure = [kind |-> "running", code |-> "", val |-> e.val],
                       !.payload = e.val]
              ELSE [th[t] EXCEPT !.pc = "restore", !.clean = FALSE,
                       !.closure = FailedClosure(e)])
    /\ UNCHANGED <<build, seq, lock, holders, halted>>

\* lines 206-212
TEncryptCurrent(t) ==
    /\ ~halted
    /\ th[t].pc = "encrypt_current"
    /\ \E e \in EncryptResponses(th[t].key, "Current") :
          SetThread(t,
              IF e.kind = "ok"
              THEN [th[t] EXCEPT !.pc = "restore",
                       !.closure = [kind |-> "ok", code |-> "",
                                    val |-> th[t].closure.val \o e.val],
                       !.payload = th[t].payload \o e.val]
              ELSE [th[t] EXCEPT !.pc = "restore", !.clean = FALSE,
                       !.closure = FailedClosure(e)])
    /\ UNCHANGED <<build, seq, lock, holders, halted>>

\* lines 214-217
TRestoreSafetyBuffer(t) ==
    /\ ~halted
    /\ th[t].pc = "restore"
    /\ \E ok \in BOOLEAN :
          LET r1 == [th[t] EXCEPT !.restores = th[t].restores + 1]
          IN  IF ok
              THEN /\ holders' = margin_restore(holders, t)
                   /\ SetThread(t, [r1 EXCEPT !.pc = "finish",
                                              !.released = holders])
              ELSE /\ SetThread(t, Returned(r1, GateFailure("restore")))
                   /\ UNCHANGED holders
    /\ UNCHANGED <<build, seq, lock, halted>>

\* lines 219-238; a panic of copy_from_slice leaves the entry point and
\* takes the process down with every call in it
TFinish(t) ==
    /\ ~halted
    /\ th[t].pc = "finish"
    /\ LET r == th[t]
           out == OutcomeOf(r.closure, r.seed)
           r1 == [r EXCEPT !.seed = SeedAfter(r.closure, r.seed)]
       IN  IF out = "abort"
           THEN /\ SetThread(t, [r1 EXCEPT !.pc = "aborted", !.clean = FALSE])
                /\ halted' = TRUE
           ELSE /\ SetThread(t, [r1 EXCEPT !.pc = "done", !.retval = out])
                /\ UNCHANGED halted
    /\ UNCHANGED <<build, seq, lock, holders>>

\* one step of thread t
TStep(t) ==
    \/ TCall(t)
    \/ TRegisterOomHandler(t)
    \/ TValidate(t)
    \/ TSplitAndRoute(t)
    \/ TVerifyAttestationEpid(t)
    \/ TLockBlockMessages(t)
    \/ TReadBlockTime(t)
    \/ TVerifyAttestationDcap(t)
    \/ TEncryptGenesis(t)
    \/ TEncryptCurrent(t)
    \/ TRestoreSafetyBuffer(t)
    \/ TFinish(t)

InitConc ==
    /\ light_client \in BOOLEAN
    /\ block_time_ns = IF light_client THEN 2000000000 ELSE 0
    /\ pc = "idle"
    /\ ncalls = 0
    /\ hdr = <<Wide(0), Wide(0), Wide(0)>>
    /\ cert_len = 0
    /\ cert = <<>>
    /\ seed = Zeros(OUTPUT_ENCRYPTED_SEED_SIZE)
    /\ seed0 = seed
    /\ Fresh
    /\ registered = 0
    /\ restored = 0
    /\ armed = FALSE
    /\ ConcIdle

NextConc == \E t \in Threads : TStep(t)

SpecConc == InitConc /\ [][NextConc]_vars

\* the host's scheduler lets every thread run
SpecConcFair == SpecConc /\ \A t \in Threads : WF_vars(TStep(t))

(***************************************************************************)
(* Claims about split_combined_cert (checked under SpecSplit).             *)
(***************************************************************************)
\* the header the caller encoded declares lengths whose unbounded sum with
\* the header size fits the buffer (computed without the model's limbs:
\* a word with a non-zero high limb alone exceeds every cert_len here)
DeclaredFits ==
    /\ hdr[1].hi = 0 /\ hdr[2].hi = 0 /\ hdr[3].hi = 0
    /\ 12 + hdr[1].lo + hdr[2].lo + hdr[3].lo <= cert_len

\* no byte at an offset >= cert_len was read
ReadsInBounds == \A r \in split_trace.reads : WLe(r[2], Wide(cert_len))

\* C6: for every buffer shorter than the 12-byte header, and every buffer
\* whose header declares 12 + s0 + s1 + s2 > cert_len, split_combined_cert
\* returns three empty sections, reads nothing at or past cert_len and
\* takes no error path (it returns its tuple without accepting).
C6_DecodeFailsSoft ==
    (pc = "split_out" /\ (cert_len < 12 \/ ~DeclaredFits)) =>
        /\ vec_cert = <<>> /\ vec_quote = <<>> /\ vec_coll = <<>>
        /\ ~split_trace.accepted
        /\ ReadsInBounds

\* a full header whose declared lengths wrap to a small 32-bit sum was
\* decoded to three empty sections
C6_Witness ==
    /\ pc = "split_out"
    /\ cert_len >= 12
    /\ hdr[1] = [hi |-> 65535, lo |-> 65535]
    /\ hdr[2] = Wide(1)
    /\ hdr[3] = Wide(0)
    /\ vec_cert = <<>> /\ vec_quote = <<>> /\ vec_coll = <<>>

\* C7: split_combined_cert accepts the bundle iff the unbounded sum
\* 12 + s0 + s1 + s2 is <= cert_len (also for header words whose sum
\* modulo 2^32 is small); when it accepts, the 32-bit offsets 12+s0 and
\* 12+s0+s1 did not wrap, the sections are the byte ranges [12,12+s0),
\* [12+s0,12+s0+s1), [12+s0+s1,12+s0+s1+s2) of the buffer, and no byte at
\* an offset >= cert_len was read.
C7_DecodeBoundsSafe ==
    pc = "split_out" =>
        /\ split_trace.accepted <=> DeclaredFits
        /\ split_trace.accepted =>
             LET a == hdr[1].lo
                 b == hdr[2].lo
                 c == hdr[3].lo
             IN  /\ split_trace.off_quote = [hi |-> 0, lo |-> 12 + a]
                 /\ split_trace.off_coll = [hi |-> 0, lo |-> 12 + a + b]
                 /\ vec_cert = [i \in 1..a |-> cert[12 + i]]
                 /\ vec_quote = [i \in 1..b |-> cert[12 + a + i]]
                 /\ vec_coll = [i \in 1..c |-> cert[12 + a + b + i]]
        /\ ReadsInBounds

\* a bundle with three non-empty sections was accepted
C7_Witness ==
    /\ pc = "split_out"
    /\ split_trace.accepted
    /\ vec_cert # <<>> /\ vec_quote # <<>> /\ vec_coll # <<>>
    /\ Len(vec_cert) + Len(vec_quote) + Len(vec_coll) + 12 = cert_len

(***************************************************************************)
(* Claims about ecall_authenticate_new_node (checked under Spec).          *)
(***************************************************************************)
\* positions in the log of the invocations of op
Idx(op) == {i \in 1..Len(log) : log[i].op = op}

Invoked(op) == Idx(op) # {}

\* op was invoked and every invocation reported success
AllOk(op) == Invoked(op) /\ \A i \in Idx(op) : log[i].ok

\* returns of the two verification paths
VerifyRet == Idx("verify_attestation_epid") \cup Idx("verify_attestation_dcap")

\* the call is over: it returned, or it died in copy_from_slice
Ended == pc \in {"done", "aborted"}

\* the encryptor's two invocations, when it ran twice with success
GenesisEv == log[CHOOSE i \in Idx("encrypt_seed") : log[i].kind = "Genesis"]
CurrentEv == log[CHOOSE i \in Idx("encrypt_seed") : log[i].kind = "Current"]

\* C1: every invocation of the seed encryptor is preceded, in the same
\* call, by exactly one verification path, and that path returned Success;
\* a call whose routing found no path, or whose verifier returned anything
\* else, never invokes the encryptor.
C1_ReleaseGatedByVerification ==
    /\ \A i \in Idx("encrypt_seed") :
          LET before == {j \in VerifyRet : j < i}
          IN  /\ Cardinality(before) = 1
              /\ \A j \in before : log[j].code = "Success"
    /\ (\E j \in VerifyRet : log[j].code # "Success") => ~Invoked("encrypt_seed")
    /\ (Ended /\ VerifyRet = {}) => ~Invoked("encrypt_seed")

\* both seeds were encrypted after a verification path returned Success
C1_Witness ==
    /\ pc = "done"
    /\ retval = "Success"
    /\ Cardinality(Idx("encrypt_seed")) = 2
    /\ Invoked("verify_attestation_dcap")

\* C2: the call returns Success only if the margin registration succeeded,
\* both buffers passed validation, the selected verifier's collaborators
\* reported success (verify_ra_cert returned Ok on the Legacy Path;
\* verify_quote_sgx returned Ok and verify_ra_report returned Success on
\* the Quote Path), both encryptions returned Ok and the restore
\* succeeded; and then the output buffer holds the whole payload.
C2_NoFailureReplacedBySuccess ==
    (pc = "done" /\ retval = "Success") =>
        /\ AllOk("register_oom_handler")
        /\ AllOk("validate_mut_ptr")
        /\ AllOk("validate_const_ptr")
        /\ Invoked("verify_attestation_epid") \/ Invoked("verify_attestation_dcap")
        /\ Invoked("verify_attestation_epid") => AllOk("verify_ra_cert")
        /\ Invoked("verify_attestation_dcap") =>
              /\ AllOk("verify_quote_sgx")
              /\ Invoked("verify_ra_report")
              /\ \A i \in Idx("verify_ra_report") : log[i].code = "Success"
        /\ Cardinality(Idx("encrypt_seed")) = 2
        /\ AllOk("encrypt_seed")
        /\ AllOk("restore_safety_buffer")
        /\ Len(seed) = OUTPUT_ENCRYPTED_SEED_SIZE
        /\ seed = GenesisEv.val \o CurrentEv.val

\* C3: a call that does not return Success leaves the output buffer as it
\* found it, at every point of the call and whatever the failure.
C3_OutputUntouchedOnFailure ==
    retval # "Success" => seed = seed0

\* the genesis encryption succeeded, the current one failed, and the
\* caller's non-zero buffer is intact
C3_Witness ==
    /\ pc = "done"
    /\ retval = "SeedEncryptionFailed"
    /\ Cardinality(Idx("encrypt_seed")) = 2
    /\ GenesisEv.ok
    /\ seed0[1] = 255
    /\ seed = seed0

\* the channel public key the verification path of this call established
VerifiedKeys ==
    {log[i].val : i \in {j \in Idx("verify_ra_cert") :
                            log[j].ok /\ Len(log[j].val) = PUBLIC_KEY_SIZE}}
    \cup
    {SubSeq(log[i].val, 1, 32) : i \in {j \in Idx("verify_quote_sgx") : log[j].ok}}

\* C4: when the call returns Success the encryptor ran exactly twice,
\* first for Genesis, then for Current, both times with the channel public
\* key the verification path produced, and the output buffer is the
\* genesis result followed by the current result.
C4_PayloadGenesisThenCurrent ==
    (pc = "done" /\ retval = "Success") =>
        /\ Cardinality(Idx("encrypt_seed")) = 2
        /\ \E i, j \in Idx("encrypt_seed") :
              /\ i < j
              /\ log[i].kind = "Genesis"
              /\ log[j].kind = "Current"
              /\ log[i].arg = log[j].arg
              /\ log[i].arg \in VerifiedKeys
              /\ seed = log[i].val \o log[j].val

\* C5: a call in which register_oom_handler succeeded invokes
\* restore_safety_buffer exactly once before it returns, whatever the
\* outcome; between calls the successful registrations equal the restores,
\* and no call starts with the margin armed.
C5_MarginReleasedOnEveryExit ==
    /\ (pc = "done" /\ AllOk("register_oom_handler")) =>
          Cardinality(Idx("restore_safety_buffer")) = 1
    /\ pc = "done" => registered = restored
    /\ pc = "register" => ~armed

\* the bundle of the call decodes to three empty sections
DecodesEmpty ==
    LET r == split_combined_cert(cert, cert_len)
    IN  r.vec_cert = <<>> /\ r.vec_quote = <<>> /\ r.vec_coll = <<>>

NoVerifierRun ==
    /\ ~Invoked("verify_ra_cert")
    /\ ~Invoked("verify_quote_sgx")
    /\ ~Invoked("verify_ra_report")
    /\ ~Invoked("encrypt_seed")

\* C8 as stated: for every bundle that decodes to three empty sections the
\* call returns exactly InvalidCert and runs no validator, comparator or
\* encryptor.
C8_NoEvidenceIsInvalidCert ==
    (pc = "done" /\ DecodesEmpty) =>
        /\ retval = "InvalidCert"
        /\ NoVerifierRun

\* C8 amended: for every bundle that decodes to three empty sections, no
\* validator, comparator or encryptor is invoked, and the call returns
\* exactly InvalidCert once it got as far as decoding the bundle; a call
\* stopped before decoding returns the outcome of the gate that stopped it.
C8_NoEvidenceIsInvalidCertOnceDecoded ==
    (Ended /\ DecodesEmpty) =>
        /\ NoVerifierRun
        /\ pc = "done"
        /\ Invoked("split_combined_cert") => retval = "InvalidCert"
        /\ ~Invoked("split_combined_cert") =>
              retval \in {"MemorySafetyAllocationError", "InvalidInput",
                          "SignatureInvalid"}

\* a bundle whose header lengths wrap in 32 bits was decoded and refused
C8_Witness ==
    /\ pc = "done"
    /\ hdr[1] = [hi |-> 65535, lo |-> 65535]
    /\ cert_len >= 12
    /\ Invoked("split_combined_cert")
    /\ retval = "InvalidCert"

\* C9: at most one verification path is invoked in a call; the Quote Path
\* is invoked iff the decoded quote and collateral sections are both
\* non-empty, whether or not a certificate is present; the Legacy Path is
\* invoked iff the quote or the collateral section is empty and the
\* certificate section is not, and then the quote validator is not run.
C9_RoutingExclusiveQuoteFirst ==
    /\ Cardinality(Idx("verify_attestation_epid")) +
         Cardinality(Idx("verify_attestation_dcap")) <= 1
    /\ Invoked("verify_ra_cert") => Invoked("verify_attestation_epid")
    /\ Invoked("verify_quote_sgx") => Invoked("verify_attestation_dcap")
    /\ Invoked("verify_attestation_epid") => ~Invoked("verify_quote_sgx")
    /\ Invoked("verify_attestation_dcap") => ~Invoked("verify_ra_cert")
    /\ Ended =>
          /\ Invoked("verify_attestation_dcap") <=>
                /\ Invoked("split_combined_cert")
                /\ vec_quote # <<>> /\ vec_coll # <<>>
          /\ Invoked("verify_attestation_epid") <=>
                /\ Invoked("split_combined_cert")
                /\ vec_quote = <<>> \/ vec_coll = <<>>
                /\ vec_cert # <<>>

\* a bundle carrying a certificate, a quote and collateral went to the
\* Quote Path
C9_Witness ==
    /\ pc = "done"
    /\ vec_cert # <<>> /\ vec_quote # <<>> /\ vec_coll # <<>>
    /\ Invoked("verify_attestation_dcap")
    /\ ~Invoked("verify_ra_cert")

\* C10: verify_attestation_epid returns the validator's own outcome when
\* the validator fails and MalformedPublicKey when the returned key is not
\* 32 bytes long, leaving the channel public key as it was (all zero) in
\* both cases; it returns Success when the key has 32 bytes, and then the
\* channel public key is that key.
C10_LegacyPathOutcome ==
    \A i \in Idx("verify_ra_cert") :
        /\ i + 1 \in Idx("verify_attestation_epid")
        /\ LET r == log[i]
               out == log[i + 1]
           IN  /\ ~r.ok =>
                     out.code = r.code /\ out.val = [k \in 1..32 |-> 0]
               /\ (r.ok /\ Len(r.val) # 32) =>
                     out.code = "MalformedPublicKey" /\ out.val = [k \in 1..32 |-> 0]
               /\ (r.ok /\ Len(r.val) = 32) =>
                     out.code = "Success" /\ out.val = r.val
               /\ (i + 1 = Len(log)) => target_public_key = out.val

\* the validator returned a 32-byte key, which is now the channel public key
C10_Witness ==
    /\ pc = "encrypt_genesis"
    /\ Invoked("verify_ra_cert")
    /\ \A i \in Idx("verify_ra_cert") : log[i].ok /\ Len(log[i].val) = 32
    /\ target_public_key[1] # 0

\* the report body verify_quote_sgx returned with this report data
BodyOf(data) == CHOOSE b \in ReportBodies : b.report_data = data

\* C11: in verify_attestation_dcap, when verify_quote_sgx returns Ok, with
\* whatever freshness status, and verify_ra_report returns Success, the
\* path returns Success and the channel public key is the first 32 bytes
\* of the report data; when verify_quote_sgx returns an error the path
\* returns InvalidCert, verify_ra_report is not invoked and the channel
\* public key stays as it was.
C11_QuotePathFreshnessNonBlocking ==
    \A i \in Idx("verify_quote_sgx") :
        LET q == log[i]
        IN  /\ q.ok =>
                 /\ i + 1 \in Idx("verify_ra_report")
                 /\ i + 2 \in Idx("verify_attestation_dcap")
                 /\ log[i + 1].code = "Success" =>
                       /\ log[i + 2].code = "Success"
                       /\ log[i + 2].val = [k \in 1..32 |-> q.val[k]]
                       /\ (i + 2 = Len(log)) => target_public_key = log[i + 2].val
            /\ ~q.ok =>
                 /\ ~Invoked("verify_ra_report")
                 /\ i + 1 \in Idx("verify_attestation_dcap")
                 /\ log[i + 1].code = "InvalidCert"
                 /\ log[i + 1].val = [k \in 1..32 |-> 0]
                 /\ (i + 1 = Len(log)) => target_public_key = log[i + 1].val

\* a quote with stale collateral passed the policy and the path succeeded
C11_Witness ==
    /\ pc = "encrypt_genesis"
    /\ \E i \in Idx("verify_quote_sgx") :
          /\ log[i].ok
          /\ log[i].kind = "SGX_QL_QV_RESULT_OUT_OF_DATE"
          /\ target_public_key = SubSeq(log[i].val, 1, 32)

\* C12: after every successful quote validation verify_ra_report is
\* invoked exactly once, on the signer and code measurements of the report
\* body returned, before the path returns a key; when it returns anything
\* but Success the call returns exactly that outcome, the channel public
\* key is not written and the seed encryptor is not invoked.
C12_PolicyEnforcedOnQuotePath ==
    \A i \in Idx("verify_quote_sgx") :
        log[i].ok =>
            /\ Idx("verify_ra_report") = {i + 1}
            /\ log[i + 1].arg = <<BodyOf(log[i].val).mr_signer,
                                  BodyOf(log[i].val).mr_enclave>>
            /\ Idx("verify_attestation_dcap") = {i + 2}
            /\ log[i + 1].code # "Success" =>
                  /\ log[i + 2].code = log[i + 1].code
                  /\ log[i + 2].val = [k \in 1..32 |-> 0]
                  /\ target_public_key = [k \in 1..32 |-> 0]
                  /\ ~Invoked("encrypt_seed")
                  /\ pc = "done"
                  /\ retval = log[i + 1].code

\* the comparator rejected the signer of a validated quote and the call
\* returned its verdict
C12_Witness ==
    /\ pc = "done"
    /\ retval = "MrSignerMismatch"
    /\ AllOk("verify_quote_sgx")
    /\ Invoked("verify_ra_report")

\* an encrypt_seed invocation of this call panicked
EncryptPanicked == \E i \in Idx("encrypt_seed") : log[i].code = "panic"

\* C13: when a seed encryption panics inside catch_unwind the panic does
\* not leave ecall_authenticate_new_node: restore_safety_buffer is still
\* invoked, and when it succeeds the call returns exactly Panic with the
\* output buffer unmodified.
C13_PanicContained ==
    EncryptPanicked =>
        /\ pc # "aborted"
        /\ seed = seed0
        /\ pc \in {"finish", "done"} =>
              Cardinality(Idx("restore_safety_buffer")) = 1
        /\ (pc = "done" /\ AllOk("restore_safety_buffer")) => retval = "Panic"

\* the current-seed encryption panicked after the genesis one succeeded,
\* the restore succeeded and the call returned Panic
C13_Witness ==
    /\ pc = "done"
    /\ retval = "Panic"
    /\ Cardinality(Idx("encrypt_seed")) = 2
    /\ EncryptPanicked
    /\ AllOk("restore_safety_buffer")

\* C14: every call ends with one NodeAuthResult and no panic leaves the
\* entry point, whatever the bundle and the collaborators' responses,
\* encryptor results of the wrong total length included; and the output
\* buffer is written only with a payload of exactly its length.
C14_ExactlyOneOutcome ==
    /\ pc # "aborted"
    /\ pc = "done" <=> retval \in NodeAuthResult
    /\ seed # seed0 =>
          /\ closure.kind = "ok"
          /\ Len(closure.val) = Len(seed)
          /\ seed = closure.val

\* C18: at every invocation of the seed encryptor the key argument is the
\* 32-byte key verify_ra_cert returned in this call or the first 32 bytes
\* of the report data verify_quote_sgx returned in this call, never the
\* all-zero initial value, for every collaborator response.
C18_KeyAlwaysVerified ==
    \A i \in Idx("encrypt_seed") :
        /\ log[i].arg \in VerifiedKeys
        /\ log[i].arg # [k \in 1..32 |-> 0]

\* op ran in this call, once, before position i of the log, with success
PassedBefore(op, i) ==
    /\ Cardinality(Idx(op)) = 1
    /\ \A j \in Idx(op) : j < i /\ log[j].ok

\* the steps of the call that read the bundle or work on its sections
AttestationWork ==
    Idx("split_combined_cert") \cup Idx("verify_ra_cert")
    \cup Idx("verify_quote_sgx") \cup Idx("verify_ra_report")
    \cup Idx("encrypt_seed")

\* C19: a call decodes, verifies and encrypts only after the margin
\* registration succeeded, then the output region and then the input
\* region passed validation, and then, in a light-client build, the bundle
\* was found in the current block; a failed registration returns
\* MemorySafetyAllocationError, a failed validation InvalidInput, a bundle
\* missing from the block SignatureInvalid; and nothing reads the bundle
\* or writes the output buffer before both validations passed.
C19_GatesBeforeAttestation ==
    /\ \A i \in AttestationWork \cup Idx("check_cert_in_current_block") :
          /\ PassedBefore("register_oom_handler", i)
          /\ PassedBefore("validate_mut_ptr", i)
          /\ PassedBefore("validate_const_ptr", i)
          /\ \A a \in Idx("register_oom_handler"), b \in Idx("validate_mut_ptr"),
                c \in Idx("validate_const_ptr") : a < b /\ b < c
    /\ \A i \in AttestationWork :
          IF light_client
          THEN PassedBefore("check_cert_in_current_block", i)
          ELSE ~Invoked("check_cert_in_current_block")
    /\ seed # seed0 => AllOk("validate_mut_ptr") /\ AllOk("validate_const_ptr")
    /\ (pc = "done" /\ ~AllOk("register_oom_handler")) =>
          retval = "MemorySafetyAllocationError" /\ Len(log) = 1
    /\ (pc = "done" /\ Invoked("validate_mut_ptr") /\ ~AllOk("validate_mut_ptr")) =>
          retval = "InvalidInput"
    /\ (pc = "done" /\ Invoked("validate_const_ptr") /\ ~AllOk("validate_const_ptr")) =>
          retval = "InvalidInput"
    /\ (pc = "done" /\ Invoked("check_cert_in_current_block")
          /\ ~AllOk("check_cert_in_current_block")) =>
          retval = "SignatureInvalid"

\* in a light-client build a call was stopped because the bundle is not in
\* the current block, after both validations passed
C19_Witness ==
    /\ pc = "done"
    /\ light_client
    /\ retval = "SignatureInvalid"
    /\ AllOk("validate_mut_ptr") /\ AllOk("validate_const_ptr")
    /\ AttestationWork = {}

\* C20: when restore_safety_buffer fails the call returns
\* MemorySafetyAllocationError whatever the encryption closure produced
\* (both encryptions succeeded, SeedEncryptionFailed, or a caught panic),
\* and the output buffer is not written.
C20_RestoreFailureOverrides ==
    (Invoked("restore_safety_buffer") /\ ~AllOk("restore_safety_buffer")) =>
        /\ pc = "done"
        /\ retval = "MemorySafetyAllocationError"
        /\ seed = seed0

\* both encryptions succeeded with a payload that fits, the restore failed
C20_Witness ==
    /\ pc = "done"
    /\ retval = "MemorySafetyAllocationError"
    /\ closure.kind = "ok"
    /\ Len(closure.val) = Len(seed)
    /\ seed0[1] = 255
    /\ seed = seed0

\* the response the collaborator op gave in this call
Resp(op) == log[CHOOSE i \in Idx(op) : TRUE]

\* the encryptor's result for a key, given the kind and length it chose
EncOf(key, e) ==
    IF e.code = "ok" THEN Payload(key, SeedTag(e.kind), Len(e.val)) ELSE <<>>

\* the closure of lines 197-212 as a function of the key and of the
\* encryptor's responses
ClosureOf(key) ==
    LET g == GenesisEv
    IN  IF g.code = "panic" THEN [kind |-> "panic", code |-> "", val |-> <<>>]
        ELSE IF g.code = "err"
        THEN [kind |-> "err", code |-> "SeedEncryptionFailed", val |-> <<>>]
        ELSE LET c == CurrentEv
             IN  IF c.code = "panic"
                 THEN [kind |-> "panic", code |-> "", val |-> <<>>]
                 ELSE IF c.code = "err"
                 THEN [kind |-> "err", code |-> "SeedEncryptionFailed", val |-> <<>>]
                 ELSE [kind |-> "ok", code |-> "",
                       val |-> EncOf(key, g) \o EncOf(key, c)]

\* what follows a verification path that returned v
AfterVerification(v) ==
    IF v.res # "Success" THEN [ret |-> v.res, seed |-> seed0]
    ELSE LET c == ClosureOf(v.pub_key)
         IN  IF ~Resp("restore_safety_buffer").ok
             THEN [ret |-> "MemorySafetyAllocationError", seed |-> seed0]
             ELSE [ret |-> OutcomeOf(c, seed0), seed |-> SeedAfter(c, seed0)]

\* result code and output buffer of a call as a function of its bundle,
\* its output buffer, the build and the collaborators' responses alone
FunctionOfInputs ==
    IF ~Resp("register_oom_handler").ok
    THEN [ret |-> "MemorySafetyAllocationError", seed |-> seed0]
    ELSE IF ~Resp("validate_mut_ptr").ok
    THEN [ret |-> "InvalidInput", seed |-> seed0]
    ELSE IF ~Resp("validate_const_ptr").ok
    THEN [ret |-> "InvalidInput", seed |-> seed0]
    ELSE IF light_client /\ ~Resp("check_cert_in_current_block").ok
    THEN [ret |-> "SignatureInvalid", seed |-> seed0]
    ELSE LET d == split_combined_cert(cert, cert_len)
             to == RouteOf(d.vec_cert, d.vec_quote, d.vec_coll)
             zero == [k \in 1..32 |-> 0]
         IN  IF to = "none" THEN [ret |-> "InvalidCert", seed |-> seed0]
             ELSE IF to = "epid"
             THEN LET r == Resp("verify_ra_cert")
                  IN  AfterVerification(verify_attestation_epid(
                          [ok |-> r.ok, key |-> r.val, err |-> r.code], zero))
             ELSE LET q == Resp("verify_quote_sgx")
                      p == IF Invoked("verify_ra_report")
                           THEN Resp("verify_ra_report").code ELSE "Success"
                  IN  AfterVerification(verify_attestation_dcap(
                          [ok |-> q.ok, body |-> BodyOf(q.val), qv |-> q.kind],
                          p, zero))

\* C15: the result code and the output buffer of a call are determined by
\* the bundle, the initial output buffer and the collaborators' responses
\* (so two runs given the same ones agree), whatever an earlier call left
\* behind: the margin's state, the counters, the previous locals.
C15_DeterminedByInputsAndResponses ==
    Ended =>
        /\ seed = FunctionOfInputs.seed
        /\ IF FunctionOfInputs.ret = "abort"
           THEN pc = "aborted"
           ELSE pc = "done" /\ retval = FunctionOfInputs.ret

\* a second call succeeded although the first one left the margin armed
C15_Witness ==
    /\ pc = "done"
    /\ ncalls = 2
    /\ registered = 2
    /\ restored = 1
    /\ retval = "Success"

(***************************************************************************)
(* Concurrent calls (SpecConc, SpecConcFair)                               *)
(***************************************************************************)
\* every call has returned and every collaborator of every call succeeded
AllReturnedClean == \A t \in Threads : th[t].pc = "done" /\ th[t].clean

\* thread t's buffer is the genesis result then the current result, both
\* under the key its own validator established
OwnPayload(t) ==
    /\ Len(th[t].vkey) = PUBLIC_KEY_SIZE
    /\ \E g \in GenesisLens, c \in CurrentLens :
          th[t].seed = Payload(th[t].vkey, SeedTag("Genesis"), g)
                       \o Payload(th[t].vkey, SeedTag("Current"), c)

\* concurrent calls with valid bundles all return Success with their own
\* payload in their own buffer
ConcOutputsIndependent ==
    AllReturnedClean =>
        \A t \in Threads : th[t].retval = "Success" /\ OwnPayload(t)

\* the restore of a call releases the registration of that call and no other
ConcRestoresOwn ==
    AllReturnedClean => \A t \in Threads : th[t].released = {t}

\* C16: concurrent calls with distinct valid bundles and distinct output
\* buffers are independent under every interleaving: each returns Success,
\* each buffer holds the genesis-then-current payload under that call's own
\* channel public key, and each call's restore releases the registration
\* made by that same call.
C16_ConcurrentAdmissionsIndependent ==
    ConcOutputsIndependent /\ ConcRestoresOwn

\* a call takes the mutex at most once, only on the quote path, and holds
\* it only while it reads the block time: never while it waits, never when
\* it invokes the quote validator
LockDiscipline ==
    \A t \in Threads :
        /\ th[t].nlock <= 1
        /\ th[t].nlock = 1 =>
              RouteOf(th[t].sec.vec_cert, th[t].sec.vec_quote,
                      th[t].sec.vec_coll) = "dcap"
        /\ lock = t <=> th[t].pc = "dcap_time"

\* every started call returns an outcome
EveryCallReturns ==
    \A t \in Threads : (th[t].pc # "idle") ~> (th[t].pc = "done")

\* C17: calls never deadlock and always finish: a call acquires the
\* trusted-timestamp lock at most once, only on the quote path, holds no
\* lock while it waits and has released it before the quote validator runs;
\* under fair scheduling every started call eventually returns an outcome.
C17_NoDeadlockAlwaysFinishes == []LockDiscipline /\ EveryCallReturns

====
